---- MODULE Spec2Model ----
(***************************************************************************)
(* A model of puffer, a Tkinter front end that drives a 3D printer over a  *)
(* serial line with G-code: ConnectionTab (connect, auto-home, inventory   *)
(* refresh), PrinterControlApp.read_response, the gcode_utils helpers and  *)
(* ExtrusionCalibrationTab (temperature poll, extrude, adjust).            *)
(*                                                                         *)
(* Text is modelled as sequences of one-character strings, numbers as      *)
(* integers in hundredths (205.3 is 20530), a Python value that may be a   *)
(* str, a float or None as a record [kind, val].                           *)
(***************************************************************************)
EXTENDS Integers, Sequences, FiniteSets, TLC

\* -------------------------------------------------------------------------
\* Bounds of the model
\* -------------------------------------------------------------------------

\* serial ports of the machine: the longest list list_serial_ports returns
MaxPorts == 2
\* body (non-terminal) lines the printer sends in one reply
MaxBody == 1
\* presses of the Connect button in one run
MaxConnects == 1
\* user-interface events of one run: button presses and ticks of the timer
MaxEvents == 2
\* transport errors (a write or a readline raising SerialException) in one run
MaxFaults == 1
\* read timeouts counted per read_response call
MaxTimeouts == 1

\* -------------------------------------------------------------------------
\* Python text operations, on sequences of characters
\* -------------------------------------------------------------------------

Range(s) == {s[i] : i \in 1..Len(s)}

UpperChars == <<"A","B","C","D","E","F","G","H","I","J","K","L","M",
                "N","O","P","Q","R","S","T","U","V","W","X","Y","Z">>
LowerChars == <<"a","b","c","d","e","f","g","h","i","j","k","l","m",
                "n","o","p","q","r","s","t","u","v","w","x","y","z">>

\* str.lower(), one character
LowerChar(c) ==
    IF \E i \in 1..26 : UpperChars[i] = c
    THEN LowerChars[CHOOSE i \in 1..26 : UpperChars[i] = c]
    ELSE c

\* str.lower()
Lower(s) == [i \in 1..Len(s) |-> LowerChar(s[i])]

\* "sub in s" for a non-empty sub
Contains(sub, s) ==
    \E i \in 1..(Len(s) - Len(sub) + 1) : SubSeq(s, i, i + Len(sub) - 1) = sub

\* index of the first occurrence of the one-character string c in s, 0 if none
Find(c, s) ==
    IF \E i \in 1..Len(s) : s[i] = c
    THEN CHOOSE i \in 1..Len(s) : s[i] = c /\ \A j \in 1..(i - 1) : s[j] # c
    ELSE 0

Whitespace == {" ", "\t", "\r", "\n"}

\* str.strip()
Strip(s) ==
    IF \A i \in 1..Len(s) : s[i] \in Whitespace
    THEN << >>
    ELSE LET a == CHOOSE i \in 1..Len(s) :
                     s[i] \notin Whitespace /\ \A j \in 1..(i - 1) : s[j] \in Whitespace
             b == CHOOSE i \in 1..Len(s) :
                     s[i] \notin Whitespace /\ \A j \in (i + 1)..Len(s) : s[j] \in Whitespace
         IN  SubSeq(s, a, b)

\* the byte that is no valid UTF-8 start byte
BadByte == "0xFF"

\* bytes.decode(): raises UnicodeDecodeError on an invalid byte
Decodable(bytes) == BadByte \notin Range(bytes)

Digits == <<"0","1","2","3","4","5","6","7","8","9">>
IsDigit(c) == \E i \in 1..10 : Digits[i] = c
DigitVal(c) == (CHOOSE i \in 1..10 : Digits[i] = c) - 1

\* the value of a string of digits
RECURSIVE DigitsVal(_)
DigitsVal(s) ==
    IF s = << >> THEN 0 ELSE 10 * DigitsVal(SubSeq(s, 1, Len(s) - 1)) + DigitVal(s[Len(s)])

\* float(s): [kind |-> "float", val |-> hundredths], or ValueError. Accepts
\* surrounding whitespace, digits, and at most two digits after one point
\* (the replies of the model carry no more).
PyFloat(s) ==
    LET t == Strip(s)
        p == Find(".", t)
        ip == IF p = 0 THEN t ELSE SubSeq(t, 1, p - 1)
        fp == IF p = 0 THEN << >> ELSE SubSeq(t, p + 1, Len(t))
        ok == /\ t # << >>
              /\ \A i \in 1..Len(ip) : IsDigit(ip[i])
              /\ \A i \in 1..Len(fp) : IsDigit(fp[i])
              /\ Len(ip) + Len(fp) > 0
              /\ Len(fp) <= 2
        frac == IF Len(fp) = 0 THEN 0
                ELSE IF Len(fp) = 1 THEN 10 * DigitsVal(fp) ELSE DigitsVal(fp)
    IN  IF ok THEN [kind |-> "float", val |-> 100 * DigitsVal(ip) + frac]
        ELSE [kind |-> "ValueError", val |-> 0]

\* s.split(c)[1] for a one-character c: the text between the first and the
\* second c; IndexError when s holds no c
SplitSecond(c, s) ==
    LET p == Find(c, s)
        rest == SubSeq(s, p + 1, Len(s))
        q == Find(c, rest)
    IN  IF p = 0 THEN [kind |-> "IndexError", val |-> << >>]
        ELSE [kind |-> "str",
              val |-> IF q = 0 THEN rest ELSE SubSeq(rest, 1, q - 1)]

\* line.split(c, 1) for a one-character c, both halves stripped
SplitFirst(c, s) ==
    LET p == Find(c, s)
    IN  <<Strip(SubSeq(s, 1, p - 1)), Strip(SubSeq(s, p + 1, Len(s)))>>

\* -------------------------------------------------------------------------
\* The wire vocabulary
\* -------------------------------------------------------------------------

\* a command line; arg is the number formatted into it, in hundredths
Cmd(op, arg) == [op |-> op, arg |-> arg]

\* the body lines the printer of the model may send before the terminal
\* line of its reply to a command, as the bytes readline() returns
BodyLines(op) ==
    CASE op = "G28"  -> {<<"b","u","s","y">>}
      [] op = "M115" -> {<<"F","W",":"," ","M","a","r","l","i","n">>, <<"\r">>}
      [] op = "M503" -> {<<"e","c","h","o",":","M","9","2"," ","E","4","0","0",".","0","0">>}
      [] op = "M114" -> {<<"X",":","0"," ","Y","=","1">>, <<BadByte>>}
      [] op = "M119" -> {<<"x","_","m","i","n","=","o","p","e","n">>}
      [] OTHER       -> {}

\* the lines that end the printer's reply to a command
TermLines(op) ==
    CASE op = "M105" -> {<<"o","k"," ","T",":","2","0","5",".","3"," ","/","2","1","0">>,
                         <<"o","k"," ","T",":","2","1","0",".","0"," ","/","2","1","0">>,
                         <<"o","k">>}
      [] op = "G28"  -> {<<"o","k">>, <<"E","r","r","o","r",":","h","a","l","t">>}
      [] OTHER       -> {<<"o","k","\r">>}

\* -------------------------------------------------------------------------
\* State
\* -------------------------------------------------------------------------

VARIABLES
    serial_connection,  \* app.serial_connection: "None" or the port it was opened on
    nwritten,           \* commands written on the current connection so far
    pending,            \* commands the printer has received and not finished answering
    rx,                 \* the input buffer of the stream: [re, k, data], line k of the
                        \* reply to command number re
    pc,                 \* where the UI thread is
    events,             \* user-interface events handled so far
    connects,           \* presses of the Connect button so far
    faults,             \* transport errors raised so far
    ports,              \* connect_to_printer: the candidate list
    conn_i,             \* connect_to_printer: index of the candidate of this iteration
    auto_home,          \* the auto-home checkbox
    attempts,           \* connect_to_printer: the opens attempted, [port, ok], in order
    connect_result,     \* how the last connect_to_printer call ended
    refresh_button,     \* state of the Refresh button, "DISABLED" or "NORMAL"
    caller,             \* refresh_treeview: who called it, "connect" or "button"
    ref_k,              \* refresh_treeview: index of the section of this iteration
    ref_cmd,            \* refresh_treeview: number of the command written for the section
    sent,               \* the commands connect_to_printer and refresh_treeview have
                        \* written on the connection since the handler began
    response,           \* read_response: the lines collected, [re, k, text]
    treeview,           \* the tree view: sections [label, cmd, rows], rows [re, text, kv]
    prev_tree,          \* refresh_treeview: the tree view as the call found it
    refresh_result,     \* how the last refresh_treeview call ended
    read_result,        \* what read_response last returned: [lines, how]
    timeouts,           \* read_response: the reads of this call that timed out
    temp_timer,         \* update_temperature is scheduled with frame.after
    op_name,            \* the calibration-tab handler running or last run
    op_in,              \* its inputs: the texts of the two entry widgets
    op_cmds,            \* the commands it has written, in order
    op_msgs,            \* the commands it has logged with "Sent: ...", in order
    op_lines,           \* the lines parse_gcode_response returned to it
    op_temp,            \* the value check_hotend_temperature returned to it
    op_result,          \* how it ended
    op_report,          \* the number it showed in the output area, -1 if none
    op_awaited,         \* the value of awaiting when it started
    awaiting            \* an extrusion was sent and no adjustment run since

vars == <<serial_connection, nwritten, pending, rx, pc, events, faults,
          connects, ports, conn_i, auto_home, attempts, connect_result, refresh_button,
          caller, ref_k, ref_cmd, sent, response, treeview, prev_tree, refresh_result,
          read_result, timeouts, temp_timer, op_name, op_in, op_cmds, op_msgs, op_lines, op_temp,
          op_result,
          op_report, op_awaited, awaiting>>

streamVars == <<nwritten, pending, rx>>
\* what the model records of the handler that runs or ran last, per tab; a
\* handler that starts clears the records of the others
connLog == <<ports, conn_i, auto_home, attempts, connect_result>>
refreshLog == <<caller, ref_k, ref_cmd, sent, response, prev_tree, refresh_result,
                read_result, timeouts>>
opLog == <<op_name, op_in, op_cmds, op_msgs, op_lines, op_temp, op_result, op_report,
           op_awaited>>

connVars == <<connects, refresh_button, connLog>>
refreshVars == <<treeview, refreshLog>>
calVars == <<temp_timer, awaiting, opLog>>

\* Python's None
None == [kind |-> "None", val |-> 0]

PortNames == <<"A", "B", "C", "D">>

\* the serial ports of the machine
PortIds == {PortNames[i] : i \in 1..MaxPorts}

\* the lists list_serial_ports can return: distinct ports, in any order
PortLists ==
    {l \in UNION {[1..n -> PortIds] : n \in 0..MaxPorts} :
        \A i, j \in 1..Len(l) : i # j => l[i] # l[j]}

\* the transport raises SerialException: possible while the budget lasts
Fault ==
    /\ faults < MaxFaults
    /\ faults' = faults + 1

ConnLogReset ==
    /\ ports' = << >>
    /\ conn_i' = 0
    /\ auto_home' = FALSE
    /\ attempts' = << >>
    /\ connect_result' = "none"

RefreshLogReset ==
    /\ caller' = "none"
    /\ ref_k' = 0
    /\ ref_cmd' = 0
    /\ sent' = << >>
    /\ response' = << >>
    /\ prev_tree' = << >>
    /\ refresh_result' = "none"
    /\ read_result' = [lines |-> << >>, how |-> "none"]
    /\ timeouts' = 0

OpLogReset ==
    /\ op_name' = "none"
    /\ op_in' = << >>
    /\ op_cmds' = << >>
    /\ op_msgs' = << >>
    /\ op_temp' = None
    /\ op_result' = "none"
    /\ op_report' = -1
    /\ op_lines' = << >>
    /\ op_awaited' = FALSE

\* the next user-interface event is handled: the UI thread is in its main loop
Event ==
    /\ pc = "idle"
    /\ events < MaxEvents
    /\ events' = events + 1

Init ==
    /\ serial_connection = "None"
    /\ nwritten = 0
    /\ pending = << >>
    /\ rx = << >>
    /\ pc = "idle"
    /\ ports = << >>
    /\ conn_i = 0
    /\ auto_home = FALSE
    /\ attempts = << >>
    /\ connect_result = "none"
    /\ events = 0
    /\ connects = 0
    /\ caller = "none"
    /\ ref_k = 0
    /\ ref_cmd = 0
    /\ sent = << >>
    /\ response = << >>
    /\ prev_tree = << >>
    /\ treeview = << >>
    /\ refresh_result = "none"
    /\ read_result = [lines |-> << >>, how |-> "none"]
    /\ timeouts = 0
    /\ refresh_button = "DISABLED"
    /\ faults = 0
    /\ temp_timer = TRUE
    /\ op_name = "none"
    /\ op_in = << >>
    /\ op_cmds = << >>
    /\ op_msgs = << >>
    /\ op_temp = None
    /\ op_result = "none"
    /\ op_report = -1
    /\ op_lines = << >>
    /\ op_awaited = FALSE
    /\ awaiting = FALSE

\* -------------------------------------------------------------------------
\* The printer and the serial stream
\* -------------------------------------------------------------------------

\* the replies the printer may give to a command: MaxBody body lines if the
\* command has any, then a terminal line
Replies(op) ==
    IF BodyLines(op) = {}
    THEN {<<t>> : t \in TermLines(op)}
    ELSE {Append(b, t) : b \in [1..MaxBody -> BodyLines(op)], t \in TermLines(op)}

\* the printer answers the oldest unanswered command; its reply reaches the
\* input buffer of the stream as a whole
PrinterStep ==
    /\ pending # << >>
    /\ \E r \in Replies(pending[1].op) :
        rx' = rx \o [i \in 1..Len(r) |-> [re |-> pending[1].id, k |-> i, data |-> r[i]]]
    /\ pending' = Tail(pending)
    /\ UNCHANGED <<serial_connection, nwritten, pc, events, faults, connVars,
                   refreshVars, calVars>>

\* what the printer receives of a write of f"{gcode}\n": the command,
\* numbered id on this connection, and its one line terminator
Received(id, cmd) == [id |-> id, op |-> cmd.op, arg |-> cmd.arg, eol |-> 1]

\* a send_gcode that does not test the connection
SendGcodeUnguarded(connection, cmd) == [written |-> <<cmd>>, logged |-> <<cmd>>]

\* send_gcode(serial_connection, gcode, app.append_message) whose write does
\* not raise: what it writes and what it logs as "Sent: ..."
SendGcode(connection, cmd) ==
    IF connection # "None"
    THEN [written |-> <<cmd>>, logged |-> <<cmd>>]
    ELSE [written |-> << >>, logged |-> << >>]

\* serial_connection.write(cmd) that succeeds: the printer receives the command
Written(cmd) ==
    /\ nwritten' = nwritten + 1
    /\ pending' = Append(pending, Received(nwritten + 1, cmd))

\* -------------------------------------------------------------------------
\* PrinterControlApp.read_response and the inventory refresh
\* -------------------------------------------------------------------------

\* the test without lower()
IsTerminalCaseSensitive(line) ==
    \/ Contains(<<"o","k">>, line)
    \/ Contains(<<"e","r","r","o","r">>, line)

\* an empty line counts as the end of a reply
IsTerminalOrEmpty(line) ==
    \/ line = << >>
    \/ Contains(<<"o","k">>, Lower(line))
    \/ Contains(<<"e","r","r","o","r">>, Lower(line))

\* "ok" in line.lower() or "error" in line.lower()
IsTerminal(line) ==
    \/ Contains(<<"o","k">>, Lower(line))
    \/ Contains(<<"e","r","r","o","r">>, Lower(line))

\* the pair with "=" tried before ":"
KeyValueEqualsFirst(line) ==
    IF Find("=", line) # 0 THEN SplitFirst("=", line)
    ELSE IF Find(":", line) # 0 THEN SplitFirst(":", line)
    ELSE <<line, << >> >>

\* the (key, value) pair the tree view shows for a reply line
KeyValue(line) ==
    IF Find(":", line) # 0 THEN SplitFirst(":", line)
    ELSE IF Find("=", line) # 0 THEN SplitFirst("=", line)
    ELSE <<line, << >> >>

\* the dict with the settings asked for first
GcodesSettingsFirst ==
    << [label |-> "Current Settings", op |-> "M503"],
       [label |-> "Firmware Info", op |-> "M115"],
       [label |-> "Position", op |-> "M114"],
       [label |-> "Endstop Status", op |-> "M119"] >>

\* the gcodes dict of refresh_treeview, in insertion order
Gcodes == << [label |-> "Firmware Info", op |-> "M115"],
             [label |-> "Current Settings", op |-> "M503"],
             [label |-> "Position", op |-> "M114"],
             [label |-> "Endstop Status", op |-> "M119"] >>

\* connect_to_printer, the except clause: continue with the next candidate,
\* or the else branch of the for loop if there is none
ConnectNext ==
    IF conn_i < Len(ports)
    THEN /\ conn_i' = conn_i + 1
         /\ pc' = "conn_try"
         /\ UNCHANGED connect_result
    ELSE /\ connect_result' = "AllPortsFailed"
         /\ pc' = "idle"
         /\ UNCHANGED conn_i

\* a SerialException raised inside refresh_treeview: connect_to_printer
\* catches it, the Refresh button's callback does not
RefreshRaisesSerial ==
    IF caller = "connect"
    THEN /\ ConnectNext
         /\ UNCHANGED refresh_result
    ELSE /\ refresh_result' = "SerialException"
         /\ pc' = "idle"
         /\ UNCHANGED <<conn_i, connect_result>>

\* an exception no handler catches leaves the callback
RefreshRaises(exc) ==
    /\ pc' = "idle"
    /\ IF caller = "connect"
       THEN connect_result' = exc /\ UNCHANGED refresh_result
       ELSE refresh_result' = exc /\ UNCHANGED connect_result
    /\ UNCHANGED conn_i

\* refresh_treeview, the body of the loop after read_response returned resp
SectionDone(resp, how) ==
    /\ read_result' = [lines |-> resp, how |-> how]
    /\ treeview' = Append(treeview,
            [label |-> Gcodes[ref_k].label, cmd |-> ref_cmd,
             rows |-> [i \in 1..Len(resp) |->
                          [re |-> resp[i].re, text |-> resp[i].text,
                           kv |-> KeyValue(resp[i].text)]]])
    /\ response' = << >>
    /\ IF ref_k < Len(Gcodes)
       THEN /\ ref_k' = ref_k + 1
            /\ pc' = "ref_send"
            /\ UNCHANGED <<connect_result, refresh_result>>
       ELSE /\ ref_k' = 0
            /\ pc' = "idle"
            /\ IF caller = "connect"
               THEN connect_result' = "Connected" /\ UNCHANGED refresh_result
               ELSE refresh_result' = "ok" /\ UNCHANGED connect_result
    /\ UNCHANGED conn_i

\* the Connect button
ConnectStart ==
    /\ Event
    /\ connects < MaxConnects
    /\ connects' = connects + 1
    /\ \E l \in PortLists, ah \in BOOLEAN :
        /\ ports' = l
        /\ auto_home' = ah
        /\ attempts' = << >>
        /\ IF l = << >>
           THEN /\ connect_result' = "NoPortsFound"
                /\ pc' = "idle"
                /\ conn_i' = 0
           ELSE /\ connect_result' = "running"
                /\ pc' = "conn_try"
                /\ conn_i' = 1
    /\ RefreshLogReset
    /\ OpLogReset
    /\ UNCHANGED <<serial_connection, streamVars, refresh_button, faults, treeview,
                   temp_timer, awaiting>>

\* connect_to_printer, one iteration of the loop: serial.Serial(port) fails
ConnectOpenFails ==
    /\ pc = "conn_try"
    /\ attempts' = Append(attempts, [port |-> ports[conn_i], ok |-> FALSE])
    /\ ConnectNext
    /\ UNCHANGED <<serial_connection, streamVars, ports, auto_home, events, connects,
                   refreshVars, refresh_button, faults, calVars>>

\* connect_to_printer, one iteration of the loop: serial.Serial(port) succeeds,
\* then perform_auto_homing and the start of refresh_treeview
ConnectOpenSucceeds ==
    /\ pc = "conn_try"
    /\ attempts' = Append(attempts, [port |-> ports[conn_i], ok |-> TRUE])
    /\ serial_connection' = ports[conn_i]
    /\ rx' = << >>
    /\ \E homed \in BOOLEAN :
        IF auto_home /\ ~homed
        THEN \* the write of G28 raises SerialException
             /\ Fault
             /\ nwritten' = 0
             /\ pending' = << >>
             /\ sent' = << >>
             /\ ConnectNext
             /\ UNCHANGED <<treeview, caller, ref_k, ref_cmd, response, prev_tree,
                            refresh_result, read_result, refresh_button>>
        ELSE /\ nwritten' = IF auto_home THEN 1 ELSE 0
             /\ pending' = IF auto_home
                           THEN << Received(1, Cmd("G28", 0)) >>
                           ELSE << >>
             /\ sent' = IF auto_home THEN << Cmd("G28", 0) >> ELSE << >>
             /\ refresh_button' = "NORMAL"
             /\ caller' = "connect"
             /\ treeview' = << >>
             /\ ref_k' = 1
             /\ pc' = "ref_send"
             /\ UNCHANGED <<conn_i, connect_result, ref_cmd, response, prev_tree,
                            refresh_result, read_result, faults>>
    /\ UNCHANGED <<ports, auto_home, events, connects, timeouts, calVars>>

\* the Refresh button
RefreshStart ==
    /\ Event
    /\ refresh_button = "NORMAL"
    /\ IF serial_connection = "None"
       THEN /\ refresh_result' = "NotConnected"
            /\ pc' = "idle"
            /\ caller' = "button"
            /\ ref_k' = 0
            /\ prev_tree' = << >>
            /\ UNCHANGED treeview
       ELSE /\ refresh_result' = "running"
            /\ caller' = "button"
            /\ prev_tree' = treeview
            /\ treeview' = << >>
            /\ ref_k' = 1
            /\ pc' = "ref_send"
    /\ ref_cmd' = 0
    /\ sent' = << >>
    /\ response' = << >>
    /\ read_result' = [lines |-> << >>, how |-> "none"]
    /\ timeouts' = 0
    /\ ConnLogReset
    /\ OpLogReset
    /\ UNCHANGED <<serial_connection, streamVars, connects, refresh_button, faults,
                   temp_timer, awaiting>>

\* refresh_treeview: the write of a section's command
RefreshSend ==
    /\ pc = "ref_send"
    /\ \/ /\ Written(Cmd(Gcodes[ref_k].op, 0))
          /\ ref_cmd' = nwritten + 1
          /\ sent' = Append(sent, Cmd(Gcodes[ref_k].op, 0))
          /\ response' = << >>
          /\ timeouts' = 0
          /\ pc' = "ref_read"
          /\ UNCHANGED <<conn_i, connect_result, refresh_result, faults>>
       \/ /\ Fault
          /\ RefreshRaisesSerial
          /\ UNCHANGED <<nwritten, pending, ref_cmd, sent, response, timeouts>>
    /\ UNCHANGED read_result
    /\ UNCHANGED <<serial_connection, rx, ports, auto_home, attempts,
                   events, connects, refresh_button, caller, ref_k, treeview, prev_tree,
                   calVars>>

\* read_response: readline() returns a line of the buffer
ReadLine ==
    /\ pc = "ref_read"
    /\ rx # << >>
    /\ rx' = Tail(rx)
    /\ \E data \in {Head(rx).data} : \E line \in {Strip(data)} :
       \E resp \in {IF line # << >>
                    THEN Append(response, [re |-> Head(rx).re, k |-> Head(rx).k,
                                           text |-> line])
                    ELSE response} :
           IF ~Decodable(data)
           THEN /\ RefreshRaises("UnicodeDecodeError")
                /\ UNCHANGED <<response, treeview, ref_k, read_result>>
           ELSE IF IsTerminal(line)
           THEN SectionDone(resp, "terminal")
           ELSE /\ response' = resp
                /\ UNCHANGED <<pc, treeview, ref_k, conn_i, connect_result,
                               refresh_result, read_result>>
    /\ UNCHANGED <<serial_connection, nwritten, pending, ports, auto_home,
                   attempts, events, connects, refresh_button, caller, ref_cmd, sent, prev_tree,
                   faults, timeouts,
                   calVars>>

\* a read_response that lets the SerialException of readline() through
ReadErrorPropagates ==
    /\ pc = "ref_read"
    /\ Fault
    /\ RefreshRaisesSerial
    /\ UNCHANGED <<serial_connection, streamVars, ports, auto_home, attempts,
                   events, connects, refresh_button, caller, ref_k, ref_cmd, sent,
                   response, treeview, prev_tree, read_result, timeouts, calVars>>

\* read_response: readline() raises SerialException, the lines read so far
\* are returned
ReadError ==
    /\ pc = "ref_read"
    /\ Fault
    /\ SectionDone(response, "SerialException")
    /\ UNCHANGED <<serial_connection, streamVars, ports, auto_home, attempts,
                   events, connects, refresh_button, caller, ref_cmd, sent, prev_tree,
                   timeouts, calVars>>

\* what readline() returns when its timeout of 2 s passes with nothing read
TimeoutBytes == << >>

\* read_response: readline() times out; the empty line is not collected and
\* is tested for the end of the reply like any other
ReadTimeout ==
    /\ pc = "ref_read"
    /\ rx = << >>
    /\ timeouts < MaxTimeouts
    /\ timeouts' = timeouts + 1
    /\ LET line == Strip(TimeoutBytes)
           resp == IF line # << >>
                   THEN Append(response, [re |-> 0, k |-> 0, text |-> line])
                   ELSE response
       IN  IF IsTerminal(line)
           THEN SectionDone(resp, "terminal")
           ELSE /\ response' = resp
                /\ UNCHANGED <<pc, treeview, ref_k, conn_i, connect_result,
                               refresh_result, read_result>>
    /\ UNCHANGED <<serial_connection, streamVars, ports, auto_home, attempts,
                   events, connects, refresh_button, caller, ref_cmd, sent, prev_tree,
                   faults, calVars>>

\* -------------------------------------------------------------------------
\* gcode_utils and BaseTab.send_and_receive_gcode
\* -------------------------------------------------------------------------

\* index of the first line of the buffer that does not decode, 0 if none
FirstBad(buf) ==
    IF \E i \in 1..Len(buf) : ~Decodable(buf[i].data)
    THEN CHOOSE i \in 1..Len(buf) :
            ~Decodable(buf[i].data) /\ \A j \in 1..(i - 1) : Decodable(buf[j].data)
    ELSE 0

\* a parse_gcode_response that reads one line and returns
DrainOneLine(buf) ==
    IF buf = << >>
    THEN {[lines |-> << >>, rest |-> << >>, exc |-> "none"]}
    ELSE {[lines |-> << [re |-> buf[1].re, k |-> buf[1].k, text |-> Strip(buf[1].data)] >>,
           rest |-> Tail(buf), exc |-> "none"]}

\* parse_gcode_response on a stream whose buffer is buf: the ways it can end.
\* It reads while in_waiting > 0 and appends every line, stripped, empty or
\* not. exc is the exception that leaves it, rest what stays in the buffer.
DrainOutcomes(buf) ==
    LET b == FirstBad(buf)
        decoded(n) == [i \in 1..n |->
                          [re |-> buf[i].re, k |-> buf[i].k, text |-> Strip(buf[i].data)]]
    IN  {IF b = 0
         THEN [lines |-> decoded(Len(buf)), rest |-> << >>, exc |-> "none"]
         ELSE [lines |-> << >>, rest |-> SubSeq(buf, b + 1, Len(buf)),
               exc |-> "UnicodeDecodeError"]}
        \cup
        {[lines |-> << >>, rest |-> SubSeq(buf, j, Len(buf)), exc |-> "SerialException"] :
            j \in 1..(IF b = 0 THEN Len(buf) ELSE b)}

\* send_and_receive_gcode, the scan: the first line holding the marker, or None
FirstWith(marker, lines) ==
    IF \E i \in 1..Len(lines) : Contains(marker, lines[i].text)
    THEN [kind |-> "str",
          val |-> lines[CHOOSE i \in 1..Len(lines) :
                            /\ Contains(marker, lines[i].text)
                            /\ \A j \in 1..(i - 1) : ~Contains(marker, lines[j].text)].text]
    ELSE None

\* what check_hotend_temperature returns for the lines drained after M105
CheckHotendTemperature(lines) == FirstWith(<<"T", ":">>, lines)

\* send_gcode, n times in a row with the connection open: the printer
\* receives the commands cmds
WrittenAll(cmds) ==
    /\ nwritten' = nwritten + Len(cmds)
    /\ pending' = pending \o [i \in 1..Len(cmds) |->
                                Received(nwritten + i, cmds[i])]
    /\ op_cmds' = op_cmds \o cmds
    /\ op_msgs' = op_msgs \o cmds

\* a calibration-tab handler starts; nothing is written or shown yet
OpBegins(name, pair) ==
    /\ op_name' = name
    /\ op_in' = pair
    /\ op_lines' = << >>
    /\ op_temp' = None
    /\ op_report' = -1
    /\ op_awaited' = awaiting

\* a calibration-tab handler ends before its first send_gcode
OpEndsEarly(result) ==
    /\ op_result' = result
    /\ pc' = "idle"
    /\ op_cmds' = << >>
    /\ op_msgs' = << >>
    /\ UNCHANGED <<nwritten, pending, faults>>

\* the first send_gcode of a calibration-tab handler, followed by the wait
\* for parse_gcode_response. With no connection send_gcode does nothing;
\* a write that raises SerialException ends the handler.
FirstSend(cmd) ==
    IF serial_connection = "None"
    THEN /\ pc' = "recv"
         /\ op_result' = "running"
         /\ op_cmds' = SendGcode(serial_connection, cmd).written
         /\ op_msgs' = SendGcode(serial_connection, cmd).logged
         /\ UNCHANGED <<nwritten, pending, faults>>
    ELSE \/ /\ nwritten' = nwritten + 1
            /\ pending' = Append(pending, Received(nwritten + 1, cmd))
            /\ op_cmds' = SendGcode(serial_connection, cmd).written
            /\ op_msgs' = SendGcode(serial_connection, cmd).logged
            /\ pc' = "recv"
            /\ op_result' = "running"
            /\ UNCHANGED faults
         \/ /\ Fault
            /\ pc' = "idle"
            /\ op_result' = "SerialException"
            /\ op_cmds' = << >>
            /\ op_msgs' = << >>
            /\ UNCHANGED <<nwritten, pending>>

\* -------------------------------------------------------------------------
\* ExtrusionCalibrationTab
\* -------------------------------------------------------------------------

\* what the user may have typed into an entry widget
EntryTexts == { <<"1","0",".","0">>, <<"1","5",".","0">>, <<"2","0">>,
                <<"2","5",".","0">>, <<"6","0",".","0">>, << >> }

\* the pairs (initial length, remaining length) the user may have typed
EntryPairs ==
    { <<i, r>> \in EntryTexts \X EntryTexts :
        \/ r = <<"1","0",".","0">>
        \/ i = <<"1","0",".","0">> /\ r = <<"1","5",".","0">> }

\* the temperature both comparisons of the tab use, in hundredths
TargetTemp == 21000
\* the least length extrude_length accepts, in hundredths
MinExtrude == 1000
\* the reference length of adjust_extrusion_factor, in hundredths
RefLength == 10000

\* the comparison as Python 2 made it: a str is never less than an int
PyLessThanTargetUntyped(v) ==
    IF v.kind = "float"
    THEN IF v.val < TargetTemp THEN "True" ELSE "False"
    ELSE "False"

\* current_temp < 210 ("True"/"False"), which Python refuses between a str
\* and an int
PyLessThanTarget(v) ==
    IF v.kind = "float"
    THEN IF v.val < TargetTemp THEN "True" ELSE "False"
    ELSE "TypeError"

\* update_temperature, the tick of the timer: check_hotend_temperature sends M105
PollStart ==
    /\ Event
    /\ temp_timer
    /\ OpBegins("poll", << >>)
    /\ FirstSend(Cmd("M105", 0))
    /\ temp_timer' = (pc' = "recv")
    /\ ConnLogReset
    /\ RefreshLogReset
    /\ UNCHANGED <<serial_connection, rx, connects, refresh_button, treeview, awaiting>>

\* update_temperature: parse_gcode_response, the label, and frame.after
PollReceive ==
    /\ pc = "recv" /\ op_name = "poll"
    /\ \E d \in DrainOutcomes(IF serial_connection = "None" THEN << >> ELSE rx) :
        /\ rx' = d.rest
        /\ IF d.exc = "SerialException" THEN Fault ELSE UNCHANGED faults
        /\ op_lines' = d.lines
        /\ IF d.exc = "none"
           THEN /\ op_temp' = CheckHotendTemperature(d.lines)
                /\ op_result' = "ok"
                /\ UNCHANGED temp_timer
           ELSE /\ op_result' = d.exc
                /\ temp_timer' = FALSE
                /\ UNCHANGED op_temp
    /\ pc' = "idle"
    /\ UNCHANGED <<serial_connection, nwritten, pending, events, connVars,
                   refreshVars, op_name, op_in, op_cmds, op_msgs, op_report, op_awaited,
                   awaiting>>

\* set_status_message: frame.configure(bg=...) on a ttk.Frame raises TclError
\* (and PrinterControlApp has no set_status), so it always raises
SetStatusMessage == "TclError"

\* the three commands extrude_length sends once the hotend is hot
ExtrudeCmds(length) == << Cmd("M302", 0), Cmd("G1 E5 F300", 0), Cmd("G1 E F300", length) >>

\* n rounded to a multiple of d, as format(x, ".2f") rounds: to nearest, ties to even
RoundDiv(n, d) ==
    LET q == n \div d
        r == n % d
    IN  IF 2 * r < d THEN q
        ELSE IF 2 * r > d THEN q + 1
        ELSE IF q % 2 = 0 THEN q ELSE q + 1

\* the product cut after two decimals, not rounded
NewStepsTruncated(current_steps, actual_extruded) ==
    (current_steps * RefLength) \div actual_extruded

\* new_steps = current_steps * (100 / actual_extruded), to two decimals
NewSteps(current_steps, actual_extruded) ==
    RoundDiv(current_steps * RefLength, actual_extruded)

\* get_current_extruder_steps, the scan of the reply
CurrentSteps(lines) ==
    LET m == FirstWith(<<"M", "9", "2">>, lines)
        e == SplitSecond("E", m.val)
    IN  IF m = None THEN [kind |-> "StepsUnavailable", val |-> 0]
        ELSE IF e.kind = "IndexError" THEN [kind |-> "IndexError", val |-> 0]
        ELSE PyFloat(e.val)

\* send_gcode for each of cmds in turn, the last thing the handler does: all
\* are written, or one of the writes raises SerialException
SendAll(cmds, done, report) ==
    \E k \in 0..Len(cmds) :
        /\ WrittenAll(SubSeq(cmds, 1, k))
        /\ IF k < Len(cmds)
           THEN /\ Fault
                /\ op_result' = "SerialException"
                /\ op_report' = -1
           ELSE /\ op_result' = done
                /\ op_report' = report
                /\ UNCHANGED faults

\* the test with <= for <
TooShortInclusive(length_to_extrude) == length_to_extrude <= MinExtrude

\* length_to_extrude < 10
TooShort(length_to_extrude) == length_to_extrude < MinExtrude

\* the test with < for <=
InvalidActualStrict(actual_extruded) == actual_extruded < 0

\* actual_extruded <= 0
InvalidActual(actual_extruded) == actual_extruded <= 0

\* the two commands in the other order: saved before set
AdjustCmdsSwapped(new_steps) == << Cmd("M500", 0), Cmd("M92 E", new_steps) >>

\* the two commands adjust_extrusion_factor sends once it has the new steps
AdjustCmds(new_steps) == << Cmd("M92 E", new_steps), Cmd("M500", 0) >>

\* the Extrude button, up to the wait for the reply to M105
ExtrudeStart ==
    /\ Event
    /\ \E pair \in EntryPairs :
        LET initial_length == PyFloat(pair[1])
            remaining_filament == PyFloat(pair[2])
            length_to_extrude == initial_length.val - remaining_filament.val
        IN  /\ OpBegins("extrude", pair)
            /\ IF serial_connection = "None"
               THEN OpEndsEarly(SetStatusMessage)
               ELSE IF initial_length.kind # "float" \/ remaining_filament.kind # "float"
               THEN OpEndsEarly("BadNumber")
               ELSE IF TooShort(length_to_extrude)
               THEN OpEndsEarly("InvalidMeasurement")
               ELSE FirstSend(Cmd("M105", 0))
    /\ ConnLogReset
    /\ RefreshLogReset
    /\ UNCHANGED <<serial_connection, rx, connects, refresh_button, treeview, temp_timer,
                   awaiting>>

\* extrude_length after the M105: the temperature gate, heat_hotend, the
\* priming and the extrusion
ExtrudeReceive ==
    /\ pc = "recv" /\ op_name = "extrude"
    /\ pc' = "idle"
    /\ \E d \in DrainOutcomes(rx) :
        LET current_temp == CheckHotendTemperature(d.lines)
            length_to_extrude == PyFloat(op_in[1]).val - PyFloat(op_in[2]).val
        IN  /\ rx' = d.rest
            /\ op_lines' = d.lines
            /\ IF d.exc # "none"
               THEN /\ op_result' = d.exc
                    /\ IF d.exc = "SerialException" THEN Fault ELSE UNCHANGED faults
                    /\ UNCHANGED <<nwritten, pending, op_cmds, op_msgs, op_temp, op_report>>
               ELSE /\ op_temp' = current_temp
                    /\ IF current_temp = None
                       THEN /\ op_result' = "TemperatureUnavailable"
                            /\ UNCHANGED <<nwritten, pending, op_cmds, op_msgs, op_report, faults>>
                       ELSE IF PyLessThanTarget(current_temp) = "TypeError"
                       THEN /\ op_result' = "TypeError"
                            /\ UNCHANGED <<nwritten, pending, op_cmds, op_msgs, op_report, faults>>
                       ELSE IF PyLessThanTarget(current_temp) = "True"
                       THEN \* heat_hotend: its first statement raises
                            /\ op_result' = SetStatusMessage
                            /\ UNCHANGED <<nwritten, pending, op_cmds, op_msgs, op_report, faults>>
                       ELSE SendAll(ExtrudeCmds(length_to_extrude), "Extruded",
                                    length_to_extrude)
    /\ awaiting' = (awaiting \/ \E i \in 1..Len(op_cmds') : op_cmds'[i].op = "G1 E F300")
    /\ UNCHANGED <<serial_connection, events, connVars, refreshVars,
                   temp_timer, op_name, op_in, op_awaited>>

\* the Adjust Extrusion button, up to the wait for the reply to M503
AdjustStart ==
    /\ Event
    /\ \E pair \in EntryPairs :
        LET initial_length == PyFloat(pair[1])
            remaining_length == PyFloat(pair[2])
            actual_extruded == initial_length.val - remaining_length.val
        IN  /\ OpBegins("adjust", pair)
            /\ IF initial_length.kind # "float" \/ remaining_length.kind # "float"
               THEN OpEndsEarly("BadNumber")
               ELSE IF InvalidActual(actual_extruded)
               THEN OpEndsEarly("InvalidMeasurement")
               ELSE IF actual_extruded = 0
               THEN \* adjustment_factor = 100 / actual_extruded
                    OpEndsEarly("ZeroDivisionError")
               ELSE FirstSend(Cmd("M503", 0))
    /\ awaiting' = FALSE
    /\ ConnLogReset
    /\ RefreshLogReset
    /\ UNCHANGED <<serial_connection, rx, connects, refresh_button, treeview, temp_timer>>

\* adjust_extrusion_factor after the M503: get_current_extruder_steps reads
\* the steps, then M92 and M500 are sent
AdjustReceive ==
    /\ pc = "recv" /\ op_name = "adjust"
    /\ pc' = "idle"
    /\ \E d \in DrainOutcomes(IF serial_connection = "None" THEN << >> ELSE rx) :
        LET current_steps == CurrentSteps(d.lines)
            actual_extruded == PyFloat(op_in[1]).val - PyFloat(op_in[2]).val
            new_steps == NewSteps(current_steps.val, actual_extruded)
        IN  /\ rx' = d.rest
            /\ op_lines' = d.lines
            /\ IF d.exc # "none"
               THEN /\ op_result' = d.exc
                    /\ IF d.exc = "SerialException" THEN Fault ELSE UNCHANGED faults
                    /\ UNCHANGED <<nwritten, pending, op_cmds, op_msgs, op_report>>
               ELSE IF current_steps.kind # "float"
               THEN /\ op_result' = IF current_steps.kind = "ValueError"
                                    THEN "BadNumber" ELSE current_steps.kind
                    /\ UNCHANGED <<nwritten, pending, op_cmds, op_msgs, op_report, faults>>
               ELSE SendAll(AdjustCmds(new_steps), "Adjusted", new_steps)
    /\ UNCHANGED <<serial_connection, events, connVars, refreshVars,
                   temp_timer, op_name, op_in, op_temp, op_awaited, awaiting>>

Next ==
    \/ PrinterStep
    \/ ConnectStart
    \/ ConnectOpenFails
    \/ ConnectOpenSucceeds
    \/ RefreshStart
    \/ RefreshSend
    \/ ReadLine
    \/ ReadError
    \/ ReadTimeout
    \/ PollStart
    \/ PollReceive
    \/ ExtrudeStart
    \/ ExtrudeReceive
    \/ AdjustStart
    \/ AdjustReceive

Spec == Init /\ [][Next]_vars

\* the runs in which the printer answers what it has received and the UI
\* thread, blocked in readline(), is handed a line that is in the buffer
LiveSpec == Init /\ [][Next]_vars /\ WF_vars(PrinterStep) /\ WF_vars(ReadLine)

\* -------------------------------------------------------------------------
\* Connection Manager
\* -------------------------------------------------------------------------

\* the connect call has returned (or an exception has left it)
ConnectEnded == connect_result \notin {"none", "running"}

\* C1: connect opens the candidates in the order supplied, and once an open
\* has succeeded it attempts no later candidate; the connection held is the
\* first port whose open succeeded, whatever happens on it after the open.
C1_StopsAtFirstSuccess ==
    /\ Len(attempts) <= Len(ports)
    /\ \A i \in 1..Len(attempts) :
        /\ attempts[i].port = ports[i]
        /\ attempts[i].ok => /\ i = Len(attempts)
                             /\ serial_connection = attempts[i].port

\* C10: connect reports NoPortsFound exactly when the candidate list is empty
\* (nothing is opened then), AllPortsFailed exactly when the list is not empty
\* and every open failed, and otherwise it succeeds.
C10_ConnectErrors ==
    ConnectEnded =>
        /\ (connect_result = "NoPortsFound") <=> (ports = << >>)
        /\ (connect_result = "NoPortsFound") => (attempts = << >>)
        /\ (connect_result = "AllPortsFailed") <=>
                /\ ports # << >>
                /\ Len(attempts) = Len(ports)
                /\ \A i \in 1..Len(attempts) : ~attempts[i].ok
        /\ (connect_result \notin {"NoPortsFound", "AllPortsFailed"}) =>
                connect_result = "Connected"

\* -------------------------------------------------------------------------
\* Printer Inventory and read_response
\* -------------------------------------------------------------------------

\* C2: in every inventory refresh the lines recorded under a section are
\* lines of the printer's reply to that section's own command, whatever was
\* written on the connection before the refresh.
C2_SectionHoldsOwnReply ==
    \A s \in 1..Len(treeview) :
        \A r \in 1..Len(treeview[s].rows) :
            treeview[s].rows[r].re = treeview[s].cmd

\* the line holds the word at position i, in any mix of upper and lower case
WordAt(word, upper, line, i) ==
    /\ i + Len(word) - 1 <= Len(line)
    /\ \A j \in 1..Len(word) : line[i + j - 1] \in {word[j], upper[j]}

\* a terminal line: one that holds "ok" or "error" in any case
TerminalLine(line) ==
    \E i \in 1..Len(line) :
        \/ WordAt(<<"o","k">>, <<"O","K">>, line, i)
        \/ WordAt(<<"e","r","r","o","r">>, <<"E","R","R","O","R">>, line, i)

\* line a of the stream arrived before line b
Before(a, b) == a.re < b.re \/ (a.re = b.re /\ a.k < b.k)

NumericInputs == PyFloat(op_in[1]).kind = "float" /\ PyFloat(op_in[2]).kind = "float"

\* initial length minus remaining length of the handler, in hundredths
MeasuredDiff == PyFloat(op_in[1]).val - PyFloat(op_in[2]).val

\* the handler has written a command with one of these names
Wrote(ops) == \E i \in 1..Len(op_cmds) : op_cmds[i].op \in ops

PrimingOps == {"M302", "G1 E5 F300", "G1 E F300"}

\* the handler has received the Response to its first command
ResponseCollected ==
    /\ serial_connection # "None"
    /\ op_result \notin {"none", "running", "BadNumber", "InvalidMeasurement",
                         "ZeroDivisionError", "SerialException", "UnicodeDecodeError"}

\* some collected line holds the marker
Collected(marker) == \E i \in 1..Len(op_lines) : Contains(marker, op_lines[i].text)

\* the first collected line that holds the marker
FirstCollected(marker) ==
    op_lines[CHOOSE i \in 1..Len(op_lines) :
                /\ Contains(marker, op_lines[i].text)
                /\ \A j \in 1..(i - 1) : ~Contains(marker, op_lines[j].text)].text

\* the number that follows the marker "T:" in a line, up to the next blank
TempAfterMarker(line) ==
    LET p == CHOOSE i \in 1..(Len(line) - 1) :
                /\ line[i] = "T" /\ line[i + 1] = ":"
                /\ \A j \in 1..(i - 1) : ~(line[j] = "T" /\ line[j + 1] = ":")
        rest == SubSeq(line, p + 2, Len(line))
        q == Find(" ", rest)
    IN  PyFloat(IF q = 0 THEN rest ELSE SubSeq(rest, 1, q - 1)).val

\* C4: on an open connection, extrude is rejected with InvalidMeasurement
\* exactly when initial - remaining < 10.0, and then writes no command; from
\* 10.0 on it proceeds to the temperature query.
C4_ExtrudeThreshold ==
    (op_name = "extrude" /\ serial_connection # "None" /\ NumericInputs) =>
        /\ (MeasuredDiff < 1000) <=> (op_result = "InvalidMeasurement")
        /\ (op_result = "InvalidMeasurement") => (op_cmds = << >>)
        /\ (MeasuredDiff >= 1000) =>
                \/ op_cmds # << >> /\ op_cmds[1] = Cmd("M105", 0)
                \/ op_result = "SerialException" /\ op_cmds = << >>

\* extrude with 15.0 and 10.0 in the entries, on an open connection, rejected
C4_Witness ==
    /\ op_name = "extrude"
    /\ serial_connection # "None"
    /\ op_in = << <<"1","5",".","0">>, <<"1","0",".","0">> >>
    /\ op_result = "InvalidMeasurement"
    /\ op_cmds = << >>

\* C5: the temperature query yields the number that follows "T:" in the first
\* collected line holding "T:", and TemperatureUnavailable when no collected
\* line holds "T:"; stated for the runs without a transport fault.
C5_TemperatureIsNumber ==
    (op_name \in {"poll", "extrude"} /\ ResponseCollected /\ faults = 0) =>
        IF Collected(<<"T", ":">>)
        THEN /\ op_temp.kind = "float"
             /\ op_temp.val = TempAfterMarker(FirstCollected(<<"T", ":">>))
        ELSE /\ op_temp = None
             /\ op_name = "extrude" => op_result = "TemperatureUnavailable"

\* C6: within one extrude operation M302, G1 E5 F300 and G1 E.. F300 are
\* written only after a temperature reading of at least 210.0 was obtained in
\* it; with no reading at the gate it ends with TemperatureUnavailable and
\* writes none of them.
C6_PrimingOnlyWhenHot ==
    op_name = "extrude" =>
        /\ Wrote(PrimingOps) => (op_temp.kind = "float" /\ op_temp.val >= 21000)
        /\ (ResponseCollected /\ ~Collected(<<"T", ":">>)) =>
                (op_result = "TemperatureUnavailable" /\ ~Wrote(PrimingOps))

\* an extrude operation that got no reading at the gate
C6_Witness ==
    /\ op_name = "extrude"
    /\ op_cmds = << Cmd("M105", 0) >>
    /\ op_lines # << >>
    /\ ~Collected(<<"T", ":">>)
    /\ op_result = "TemperatureUnavailable"

\* C7: AdjustingFactor, which writes M503, M92 and M500, is entered only
\* from AwaitingMeasurement: after an extrude operation has written its
\* G1 E.. F300 since the last adjustment; stated for the runs without a
\* transport fault.
C7_AdjustOnlyAfterExtrusion ==
    (op_name = "adjust" /\ Wrote({"M503", "M92 E", "M500"}) /\ faults = 0) => op_awaited

\* C8: a successful adjustment writes M503, M92 E<new steps> and M500, in
\* that order and once each; new steps is current steps * 100 / actual
\* extruded to two decimals, current steps the number after "E" in the
\* collected line holding "M92"; the number reported is the number written.
C8_AdjustSequence ==
    (op_name = "adjust" /\ op_result = "Adjusted") =>
        /\ Collected(<<"M", "9", "2">>)
        /\ LET current == PyFloat(SplitSecond("E", FirstCollected(<<"M", "9", "2">>)).val).val
               exact == current * 10000
               written == op_cmds[2].arg * MeasuredDiff
           IN  /\ Len(op_cmds) = 3
               /\ op_cmds[1] = Cmd("M503", 0)
               /\ op_cmds[2].op = "M92 E"
               /\ op_cmds[3] = Cmd("M500", 0)
               /\ 2 * (written - exact) <= MeasuredDiff
               /\ 2 * (exact - written) <= MeasuredDiff
               /\ op_report = op_cmds[2].arg

\* the adjustment of the example: 50 mm extruded at 400 steps/mm gives 800.00
C8_Witness ==
    /\ op_name = "adjust"
    /\ op_result = "Adjusted"
    /\ MeasuredDiff = 5000
    /\ op_cmds[2] = Cmd("M92 E", 80000)

\* C9: an adjustment that fails leaves the steps/mm of the printer alone:
\* with InvalidMeasurement (actual extruded <= 0) it writes nothing, with
\* StepsUnavailable (no collected line holds "M92") neither M92 nor M500.
C9_FailedAdjustWritesNothing ==
    op_name = "adjust" =>
        /\ (NumericInputs /\ MeasuredDiff <= 0) => op_result = "InvalidMeasurement"
        /\ op_result = "InvalidMeasurement" =>
                (NumericInputs /\ MeasuredDiff <= 0 /\ op_cmds = << >>)
        /\ op_result = "StepsUnavailable" =>
                (~Collected(<<"M", "9", "2">>) /\ ~Wrote({"M92 E", "M500"}))
        /\ (op_result \in {"BadNumber", "IndexError", "UnicodeDecodeError"}) =>
                ~Wrote({"M92 E", "M500"})

\* an adjustment on an open connection that found no steps in the reply
C9_Witness ==
    /\ op_name = "adjust"
    /\ serial_connection # "None"
    /\ op_result = "StepsUnavailable"
    /\ op_cmds = << Cmd("M503", 0) >>
    /\ op_lines # << >>

\* -------------------------------------------------------------------------
\* Connection Management: homing
\* -------------------------------------------------------------------------

\* how many times the command named op stands in the sequence of commands
Count(op, cmds) == Cardinality({i \in 1..Len(cmds) : cmds[i].op = op})

\* some open of the connect call has succeeded
Opened == \E i \in 1..Len(attempts) : attempts[i].ok

\* the index of the first open that succeeded
FirstOpened ==
    CHOOSE i \in 1..Len(attempts) :
        attempts[i].ok /\ \A j \in 1..(i - 1) : ~attempts[j].ok

\* C11: after a successful open G28 is written once if the auto-home flag is
\* set and never if it is not, before any inventory command; and a homing
\* write that failed changes nothing: the connect stays connected on that
\* port, tries no further candidate and reports no error.
C11_HomingFireAndForget ==
    (connect_result # "none" /\ Opened) =>
        /\ Count("G28", sent) <= 1
        /\ ~auto_home => Count("G28", sent) = 0
        /\ Count("G28", sent) = 1 => sent[1] = Cmd("G28", 0)
        /\ (auto_home /\ pc \in {"ref_send", "ref_read"}) => Count("G28", sent) = 1
        /\ (auto_home /\ Count("G28", sent) = 0) =>
                /\ Len(attempts) = FirstOpened
                /\ serial_connection = attempts[FirstOpened].port
                /\ connect_result \in {"running", "Connected"}
                /\ pc # "conn_try"

\* -------------------------------------------------------------------------
\* Printer Inventory: the four commands
\* -------------------------------------------------------------------------

InventoryOps == <<"M115", "M503", "M114", "M119">>

InventoryLabels == <<"Firmware Info", "Current Settings", "Position", "Endstop Status">>

NotHoming(cmd) == cmd.op # "G28"

\* the commands the refresh has written, without the homing before it
SentInventory == SelectSeq(sent, NotHoming)

\* the refresh has run to its end
RefreshComplete ==
    \/ caller = "button" /\ refresh_result = "ok"
    \/ caller = "connect" /\ connect_result = "Connected"

\* C12: a refresh writes M115, M503, M114, M119 in that order, each once; a
\* command is written only when the Response of every command before it has
\* been collected; the record has the four labels in the same order.
C12_RefreshSequence ==
    caller # "none" =>
        /\ Len(SentInventory) <= 4
        /\ \A i \in 1..Len(SentInventory) : SentInventory[i] = Cmd(InventoryOps[i], 0)
        /\ Len(treeview) <= 4
        /\ \A i \in 1..Len(treeview) : treeview[i].label = InventoryLabels[i]
        /\ pc = "ref_send" => Len(treeview) = Len(SentInventory)
        /\ pc = "ref_read" => Len(treeview) = Len(SentInventory) - 1
        /\ RefreshComplete => (Len(SentInventory) = 4 /\ Len(treeview) = 4)

\* a refresh started by the Refresh button that has run to its end
C12_Witness ==
    /\ caller = "button"
    /\ refresh_result = "ok"
    /\ Len(SentInventory) = 4
    /\ Len(treeview) = 4

\* -------------------------------------------------------------------------
\* Concurrency: one exchange at a time
\* -------------------------------------------------------------------------

\* C13: a command is written to the connection only when every command
\* written before it has been answered and its reply read, and never two in
\* one go: two commands are never outstanding together.
C13_OneOutstanding ==
    [][ nwritten' > nwritten =>
            /\ pending = << >>
            /\ rx = << >>
            /\ nwritten' = nwritten + 1 ]_vars

\* -------------------------------------------------------------------------
\* Printer Inventory: keys and values
\* -------------------------------------------------------------------------

Blank == {" ", "\t", "\r", "\n"}

\* x is y without the blanks around it
IsTrimOf(x, y) ==
    /\ x # << >> => (x[1] \notin Blank /\ x[Len(x)] \notin Blank)
    /\ \E a \in 0..Len(y) :
        /\ a + Len(x) <= Len(y)
        /\ \A j \in 1..Len(x) : y[a + j] = x[j]
        /\ \A j \in 1..Len(y) : (j <= a \/ j > a + Len(x)) => y[j] \in Blank

\* the pair <<key, value>> is the line t cut at its first character c
CutAtFirst(c, t, key, value) ==
    \E p \in 1..Len(t) :
        /\ t[p] = c
        /\ \A j \in 1..(p - 1) : t[j] # c
        /\ IsTrimOf(key, SubSeq(t, 1, p - 1))
        /\ IsTrimOf(value, SubSeq(t, p + 1, Len(t)))

Has(c, t) == \E j \in 1..Len(t) : t[j] = c

\* C14: a reply line with ":" is cut at its first ":", else one with "=" at
\* its first "=", else the whole line is the key and the value is empty;
\* key and value carry no blanks around them.
C14_KeyValueSplit ==
    \A s \in 1..Len(treeview) :
        \A r \in 1..Len(treeview[s].rows) :
            LET t == treeview[s].rows[r].text
                key == treeview[s].rows[r].kv[1]
                value == treeview[s].rows[r].kv[2]
            IN  IF Has(":", t) THEN CutAtFirst(":", t, key, value)
                ELSE IF Has("=", t) THEN CutAtFirst("=", t, key, value)
                ELSE key = t /\ value = << >>

\* the record holds a line with ":" before "=", a line with only "=", a line
\* with a blank after its ":" and a line with neither
C14_Witness ==
    /\ \E s \in 1..Len(treeview) : \E r \in 1..Len(treeview[s].rows) :
            /\ treeview[s].rows[r].text = <<"X",":","0"," ","Y","=","1">>
            /\ treeview[s].rows[r].kv = << <<"X">>, <<"0"," ","Y","=","1">> >>
    /\ \E s \in 1..Len(treeview) : \E r \in 1..Len(treeview[s].rows) :
            /\ treeview[s].rows[r].text = <<"x","_","m","i","n","=","o","p","e","n">>
            /\ treeview[s].rows[r].kv = << <<"x","_","m","i","n">>, <<"o","p","e","n">> >>
    /\ \E s \in 1..Len(treeview) : \E r \in 1..Len(treeview[s].rows) :
            /\ treeview[s].rows[r].text = <<"F","W",":"," ","M","a","r","l","i","n">>
            /\ treeview[s].rows[r].kv = << <<"F","W">>, <<"M","a","r","l","i","n">> >>
    /\ \E s \in 1..Len(treeview) : \E r \in 1..Len(treeview[s].rows) :
            /\ treeview[s].rows[r].text = <<"o","k">>
            /\ treeview[s].rows[r].kv = << <<"o","k">>, << >> >>

\* -------------------------------------------------------------------------
\* Printer Inventory: refresh again
\* -------------------------------------------------------------------------

\* what a tree view shows: the labels and, under each, the pairs in order
Shown(tree) ==
    [i \in 1..Len(tree) |->
        [label |-> tree[i].label,
         pairs |-> [j \in 1..Len(tree[i].rows) |-> tree[i].rows[j].kv]]]

\* the printer has answered command number c
Answered(c) == \A i \in 1..Len(pending) : pending[i].id # c

\* the lines of the printer's reply to command number c, without the blank
\* ones, wherever they are now: in a record or still unread in the buffer
AnswerTo(c) ==
    UNION {UNION {{tree[i].rows[j].text : j \in {j \in 1..Len(tree[i].rows) :
                                                    tree[i].rows[j].re = c}} :
                  i \in 1..Len(tree)} : tree \in {prev_tree, treeview}}
    \cup ({Strip(rx[i].data) : i \in {i \in 1..Len(rx) : rx[i].re = c}} \ {<< >>})

\* the second of two refreshes in a row has run to its end, and the printer
\* answered each of the four commands the second time as it did the first
RefreshedTwiceAlike ==
    /\ caller = "button"
    /\ refresh_result = "ok"
    /\ Len(prev_tree) = 4
    /\ Len(treeview) = 4
    /\ \A k \in 1..4 :
        /\ Answered(prev_tree[k].cmd)
        /\ Answered(treeview[k].cmd)
        /\ AnswerTo(prev_tree[k].cmd) = AnswerTo(treeview[k].cmd)

\* C15: when the printer answers the four commands the same way each time,
\* the record after a further refresh equals the record after the one
\* before; stated for the runs without a transport fault.
C15_RefreshIdempotent ==
    (RefreshedTwiceAlike /\ faults = 0) => Shown(treeview) = Shown(prev_tree)

\* -------------------------------------------------------------------------
\* Calibration Workflow: the number written
\* -------------------------------------------------------------------------

\* current_steps * (100 / actual_extruded) to the nearest hundredth, both
\* numbers and the result in hundredths
StepsFor(actual_extruded, current_steps) ==
    (2 * current_steps * 10000 + actual_extruded) \div (2 * actual_extruded)

\* the steps the handler read: the number after "E" in the first collected
\* line that holds "M92"
StepsRead == PyFloat(SplitSecond("E", FirstCollected(<<"M", "9", "2">>)).val).val

\* C16: the value written with M92 is a function of actual_extruded and
\* current_steps alone, current_steps * 100 / actual_extruded to two
\* decimals: 50.0 and 400.0 give 800.00.
C16_StepsDeterministic ==
    (op_name = "adjust" /\ Wrote({"M92 E"})) =>
        /\ op_cmds[2] = Cmd("M92 E", StepsFor(MeasuredDiff, StepsRead))
        /\ (MeasuredDiff = 5000 /\ StepsRead = 40000) => op_cmds[2].arg = 80000

\* an adjustment whose quotient has to be rounded: 15 mm extruded at 400
\* steps/mm gives 2666.67
C16_Witness ==
    /\ op_name = "adjust"
    /\ Wrote({"M92 E"})
    /\ MeasuredDiff = 1500
    /\ StepsRead = 40000
    /\ op_cmds[2].arg = 266667

\* -------------------------------------------------------------------------
\* Wire Protocol: no connection
\* -------------------------------------------------------------------------

\* C17: with no connection open a send writes nothing, logs nothing and
\* raises nothing, and the receive after it returns no line; with a
\* connection open every command written goes out with one line terminator
\* and is logged once with "Sent: ...".
C17_SendWithoutConnection ==
    /\ (serial_connection = "None" /\ op_name \in {"poll", "adjust"}) =>
            /\ op_cmds = << >>
            /\ op_msgs = << >>
            /\ nwritten = 0
            /\ pending = << >>
            /\ op_lines = << >>
            /\ op_result \notin {"SerialException", "UnicodeDecodeError", "TclError",
                                 "TypeError", "IndexError"}
            /\ (op_name = "poll" /\ pc = "idle") => op_result = "ok"
            /\ (op_name = "adjust" /\ NumericInputs /\ MeasuredDiff > 0) =>
                    \/ pc = "recv" /\ op_result = "running"
                    \/ pc = "idle" /\ op_result = "StepsUnavailable"
    /\ serial_connection # "None" =>
            /\ op_msgs = op_cmds
            /\ \A i \in 1..Len(pending) : pending[i].eol = 1

\* a temperature poll that ran with no connection open
C17_Witness ==
    /\ serial_connection = "None"
    /\ op_name = "poll"
    /\ pc = "idle"
    /\ op_result = "ok"
    /\ op_cmds = << >>
    /\ op_lines = << >>

\* -------------------------------------------------------------------------
\* Wire Protocol: bytes that do not decode
\* -------------------------------------------------------------------------

\* C18: a reply line whose bytes do not decode is left out of the Response
\* and nothing is raised: no handler is ended by a UnicodeDecodeError, from
\* read_response or from parse_gcode_response; stated for the runs without
\* a transport fault.
C18_UndecodableLineDropped ==
    faults = 0 =>
        /\ connect_result # "UnicodeDecodeError"
        /\ refresh_result # "UnicodeDecodeError"
        /\ op_result # "UnicodeDecodeError"

\* -------------------------------------------------------------------------
\* Calibration Workflow: heating, priming and extruding
\* -------------------------------------------------------------------------

\* the extrude handler got a Response to its M105 with a reading in it
GateReadingAvailable ==
    /\ op_name = "extrude"
    /\ ResponseCollected
    /\ Collected(<<"T", ":">>)

\* nothing has gone wrong before the handler: no transport fault, and the
\* refresh of the connect ran to its end
QuietRun == faults = 0 /\ Len(treeview) = 4

\* the reading of the gate, in hundredths
GateReading == TempAfterMarker(FirstCollected(<<"T", ":">>))

\* C19: an extrude that proceeds (its reading at the gate is at least
\* 210.0) writes, after its M105, M302, then G1 E5 F300, then G1 E<length>
\* F300, each once, length being initial - remaining, and reports that
\* length; stated for the runs in which nothing has gone wrong before.
C19_ExtrudeSequence ==
    (GateReadingAvailable /\ GateReading >= 21000 /\ QuietRun) =>
        /\ op_cmds = << Cmd("M105", 0), Cmd("M302", 0), Cmd("G1 E5 F300", 0),
                        Cmd("G1 E F300", MeasuredDiff) >>
        /\ op_report = MeasuredDiff

\* the first place of a command named in ops among the commands written,
\* one past the end if there is none
FirstOf(ops) ==
    IF Wrote(ops)
    THEN CHOOSE i \in 1..Len(op_cmds) :
            op_cmds[i].op \in ops /\ \A j \in 1..(i - 1) : op_cmds[j].op \notin ops
    ELSE Len(op_cmds) + 1

\* C20: an extrude writes M104 S210 once when its reading at the gate is
\* available and below 210.0, and not at all when the reading is at least
\* 210.0 or unavailable; M104 S210 comes before every later M105 and before
\* the priming; stated for the runs in which nothing has gone wrong before.
C20_HeatingCommand ==
    (op_name = "extrude" /\ ResponseCollected /\ QuietRun) =>
        IF Collected(<<"T", ":">>) /\ GateReading < 21000
        THEN /\ Count("M104 S210", op_cmds) = 1
             /\ FirstOf({"M104 S210"}) < FirstOf(PrimingOps)
             /\ \A i \in 2..Len(op_cmds) :
                    op_cmds[i].op = "M105" => FirstOf({"M104 S210"}) < i
        ELSE Count("M104 S210", op_cmds) = 0

\* -------------------------------------------------------------------------
\* Calibration Workflow: HeatingWait
\* -------------------------------------------------------------------------

\* the extrude handler is over and its reading at the gate was below 210.0:
\* it went through HeatingWait
HeatedAndOver ==
    /\ GateReadingAvailable
    /\ GateReading < 21000
    /\ pc = "idle"
    /\ QuietRun

\* C21: HeatingWait is left only by a poll that reads at least 210.0, and
\* then into Priming; there is no deadline and no cancellation. So an
\* extrude that had to heat and is over has reached Priming: it has written
\* the priming commands. Stated for the runs in which nothing has gone wrong
\* before.
C21_HeatingWaitExit ==
    HeatedAndOver => (Wrote({"M302"}) /\ Wrote({"G1 E5 F300"}))

\* -------------------------------------------------------------------------
\* read_response: termination
\* -------------------------------------------------------------------------

\* a read of read_response timed out in this step
TimedOut == timeouts' = timeouts + 1

\* read_response stops reading in this step
LeavesRead == pc = "ref_read" /\ pc' # "ref_read"

\* C22: read_response is left once the printer has delivered a terminal
\* line or the stream has raised a read error (the printer answering what
\* it received, every read ends); it stops reading only on a line of the
\* buffer, a terminal one or one that cannot be decoded, or on a read error;
\* a read that times out collects nothing and leaves it reading.
C22_ReadUntilTerminal ==
    /\ (pc = "ref_read") ~> (pc # "ref_read")
    /\ [][LeavesRead =>
            \/ faults' = faults + 1
            \/ /\ rx # << >>
               /\ \/ TerminalLine(Head(rx).data)
                  \/ BadByte \in Range(Head(rx).data)]_vars
    /\ [][TimedOut => pc' = "ref_read" /\ response' = response
                      /\ treeview' = treeview]_vars

\* read_response returned on a terminal line after a read that timed out
C22_Witness ==
    /\ caller # "none"
    /\ pc # "ref_read"
    /\ read_result.how = "terminal"
    /\ read_result.lines # << >>
    /\ timeouts > 0

\* -------------------------------------------------------------------------
\* parse_gcode_response: what it reads
\* -------------------------------------------------------------------------

\* a is the beginning of b
IsPrefix(a, b) == Len(a) <= Len(b) /\ SubSeq(b, 1, Len(a)) = a

\* parse_gcode_response returns in this step, by return and not by exception
DrainReturns ==
    /\ pc = "recv"
    /\ pc' # "recv"
    /\ op_result' \notin {"SerialException", "UnicodeDecodeError"}

\* C23: parse_gcode_response returns exactly the lines that were buffered
\* when it was called, in order, and leaves the buffer empty; with nothing
\* buffered, or no connection, it returns no line. It does not wait for the
\* printer: what the printer had not answered is still unanswered when it
\* returns. Outside a read, nothing takes a line out of the buffer: a reply
\* that arrives later stays there for a later read.
C23_DrainsWhatIsBuffered ==
    /\ [][DrainReturns =>
            /\ Len(op_lines') = (IF serial_connection = "None" THEN 0 ELSE Len(rx))
            /\ \A i \in 1..Len(op_lines') :
                    /\ op_lines'[i].re = rx[i].re
                    /\ op_lines'[i].k = rx[i].k
                    /\ IsTrimOf(op_lines'[i].text, rx[i].data)
            /\ rx' = << >>
            /\ IsPrefix(pending, pending')]_vars
    /\ [][(pc = "idle" \/ pc = "ref_send") => IsPrefix(rx, rx')]_vars

\* update_temperature wrote M105 and got no line, and the reply to that M105
\* is in the buffer now
C23_Witness ==
    /\ serial_connection # "None"
    /\ op_name = "poll"
    /\ op_result = "ok"
    /\ op_cmds # << >>
    /\ op_lines = << >>
    /\ pc = "idle"
    /\ rx # << >>
    /\ rx[1].re = nwritten

\* -------------------------------------------------------------------------
\* Inventory refresh: a read error
\* -------------------------------------------------------------------------

\* readline() raises SerialException in this step
ReadFails == pc = "ref_read" /\ faults' = faults + 1

\* the rows of a section are the lines, in order
RowsAre(section, lines) ==
    /\ Len(section.rows) = Len(lines)
    /\ \A i \in 1..Len(lines) :
          section.rows[i].re = lines[i].re /\ section.rows[i].text = lines[i].text

\* a section that holds a partial result: no terminal line ends it
Partial(section) ==
    \/ section.rows = << >>
    \/ ~TerminalLine(section.rows[Len(section.rows)].text)

\* C24: a read error during a refresh ends the read of that section only.
\* The section gets the lines collected before the error; nothing is
\* written in the step, so the failed command is not written again; the
\* refresh goes on to write the next section's command, or has run to its
\* end if the section was the last; the connection is the one it was. With
\* a read error behind it the refresh still writes each command once, in
\* order.
C24_ReadErrorIsPartialResult ==
    /\ [][ReadFails =>
            /\ read_result' = [lines |-> response, how |-> "SerialException"]
            /\ Len(treeview') = Len(treeview) + 1
            /\ SubSeq(treeview', 1, Len(treeview)) = treeview
            /\ treeview'[Len(treeview')].label = InventoryLabels[ref_k]
            /\ RowsAre(treeview'[Len(treeview')], response)
            /\ sent' = sent /\ nwritten' = nwritten /\ pending' = pending
            /\ serial_connection' = serial_connection
            /\ IF ref_k < 4
               THEN pc' = "ref_send" /\ ref_k' = ref_k + 1
               ELSE pc' = "idle" /\ RefreshComplete'
            /\ refresh_result' = refresh_result \/ refresh_result' = "ok"
            /\ connect_result' = connect_result \/ connect_result' = "Connected"]_vars
    /\ [](caller # "none" /\ (\E i \in 1..Len(treeview) : Partial(treeview[i])) =>
            /\ \A i \in 1..Len(SentInventory) : SentInventory[i] = Cmd(InventoryOps[i], 0)
            /\ Len(SentInventory) >= Len(treeview)
            /\ Len(SentInventory) <= 4
            /\ serial_connection # "None")

\* a refresh that ran to its end although the read of one of its first three
\* sections failed after a line had been collected
C24_Witness ==
    /\ RefreshComplete
    /\ faults = 1
    /\ Len(SentInventory) = 4
    /\ Len(treeview) = 4
    /\ \E i \in 1..3 : Partial(treeview[i]) /\ treeview[i].rows # << >>

\* -------------------------------------------------------------------------
\* Connection Manager: what a connect leaves behind
\* -------------------------------------------------------------------------

\* the streams the connect call has opened; the code closes none of them
OpenedStreams == {i \in 1..Len(attempts) : attempts[i].ok}

\* C25: when connect has returned, the application holds a connection if
\* and only if connect reported success; a connect that reported
\* AllPortsFailed or NoPortsFound on an application that was not connected
\* leaves serial_connection unset, and at most one stream opened by the
\* call is open.
C25_ConnectionIffSuccess ==
    connect_result \in {"Connected", "AllPortsFailed", "NoPortsFound"} =>
        /\ (serial_connection # "None") <=> (connect_result = "Connected")
        /\ Cardinality(OpenedStreams) <= 1
        /\ connect_result # "Connected" => OpenedStreams = {}

\* -------------------------------------------------------------------------
\* Calibration Workflow: an unavailable reading
\* -------------------------------------------------------------------------

\* the handler wrote M105 after it wrote M104 S210: a poll of HeatingWait
PolledAfterHeating ==
    \E i, j \in 1..Len(op_cmds) :
        /\ i < j
        /\ op_cmds[i].op = "M104 S210"
        /\ op_cmds[j].op = "M105"

====
